---- MODULE Spec2Model ----
(***************************************************************************)
(* Model of the todo list of src/todo_list.rs and the query dispatcher of  *)
(* src/runner.rs.                                                          *)
(*                                                                         *)
(* A Rust String is modelled as the sequence of its chars (Unicode code    *)
(* points).  `c as u8` keeps the low eight bits of a char, and as_bytes()  *)
(* is the UTF-8 encoding, as in Rust.  A Vec<u32> signature is a sequence  *)
(* of naturals below 2^32.  Indices of the code are 0-based; sequences     *)
(* here are 1-based, so position i of the code is element i + 1.           *)
(***************************************************************************)
EXTENDS Integers, Sequences, FiniteSets, TLC

VARIABLES
    top_index,    \* TodoList.top_index
    items,        \* TodoList.items
    pc,           \* "idle", or "search" while TodoList::search is running
    evald,        \* per item of a running search: "pending", "keep", "drop"
    last,         \* the last run_query call: query, value returned, result
    completed,    \* history: the ids for which done_with_index returned Some
    pattern,      \* function harness: the pattern argument
    words,        \* function harness: the word list argument
    call          \* function harness: the last function applied, its result

vars == <<top_index, items, pc, evald, last, completed, pattern, words, call>>

-----------------------------------------------------------------------------
(* Bounds of the model *)

MaxItems == 3     \* pushes per behaviour of Spec
MaxDesc == 4      \* chars of the description split into FnSpec's word list
MaxPat == 2       \* chars of FnSpec's pattern

-----------------------------------------------------------------------------
(* Characters *)

LowerA == 97
LowerZ == 122
UpperA == 65
UpperZ == 90
Hyphen == 45
Space == 32
HyphenPosition == 28
UndefinedPosition == 127

\* `c as u8` of a char c: the cast truncates to the low eight bits.
as_u8(c) == c % 256

\* The UTF-8 encoding of one char (one to three bytes cover the chars used).
utf8(c) ==
    IF c < 128 THEN <<c>>
    ELSE IF c < 2048 THEN <<192 + (c \div 64), 128 + (c % 64)>>
    ELSE <<224 + (c \div 4096), 128 + ((c \div 64) % 64), 128 + (c % 64)>>

RECURSIVE as_bytes(_)
as_bytes(s) == IF s = <<>> THEN <<>> ELSE utf8(Head(s)) \o as_bytes(Tail(s))

get_alphabet_position(c) ==
    IF c >= LowerA /\ c <= LowerZ THEN c - LowerA
    ELSE IF c >= UpperA /\ c <= UpperZ THEN c - UpperA
    ELSE IF c = Hyphen THEN HyphenPosition
    ELSE UndefinedPosition

get_bit_position(c) ==
    IF c >= LowerA /\ c <= LowerZ THEN 2 ^ (c - LowerA)
    ELSE IF c >= UpperA /\ c <= UpperZ THEN 2 ^ (c - UpperA)
    ELSE IF c = Hyphen THEN 2 ^ HyphenPosition
    ELSE 0

\* a & b and a | b on u32 values
RECURSIVE BitAnd(_, _)
BitAnd(a, b) ==
    IF a = 0 \/ b = 0 THEN 0
    ELSE (a % 2) * (b % 2) + 2 * BitAnd(a \div 2, b \div 2)

BitOr(a, b) == a + b - BitAnd(a, b)

-----------------------------------------------------------------------------
(* The signature and the matchers *)

\* A bug of hash_words: the mask is overwritten (=) where it is or-ed (|=).
or_assign_overwrites(mask, bit) == bit

\* words_hash[i] |= bit
or_assign(mask, bit) == BitOr(mask, bit)

\* The inner loop of hash_words over word.chars().enumerate(), from the
\* char at 0-based position i on.
RECURSIVE hash_word(_, _, _)
hash_word(words_hash, word, i) ==
    IF i >= Len(word) THEN words_hash
    ELSE LET bit == get_bit_position(as_u8(word[i + 1]))
         IN  hash_word(IF i >= Len(words_hash)
                         THEN Append(words_hash, bit)
                         ELSE [words_hash EXCEPT ![i + 1] = or_assign(@, bit)],
                       word, i + 1)

\* The outer loop of hash_words, from the k-th word on.
RECURSIVE hash_from(_, _, _)
hash_from(words_hash, ws, k) ==
    IF k > Len(ws) THEN words_hash
    ELSE hash_from(hash_word(words_hash, ws[k], 0), ws, k + 1)

hash_words(ws) == hash_from(<<>>, ws, 1)

\* The while loop of match_with_hash: the first position from i on whose
\* mask has the bit pos, or m.
RECURSIVE hash_skip(_, _, _)
hash_skip(words_hash, pos, i) ==
    IF i < Len(words_hash) /\ BitAnd(words_hash[i + 1], pos) = 0
      THEN hash_skip(words_hash, pos, i + 1)
      ELSE i

\* The for loop of match_with_hash from the k-th char of word on, cursor i.
RECURSIVE hash_loop(_, _, _, _)
hash_loop(word, words_hash, k, i) ==
    IF k > Len(word) THEN TRUE
    ELSE LET j == hash_skip(words_hash, get_bit_position(as_u8(word[k])), i)
         IN  IF j >= Len(words_hash) THEN FALSE
             ELSE hash_loop(word, words_hash, k + 1, j + 1)

match_with_hash(word, words_hash) == hash_loop(word, words_hash, 1, 0)

\* The while loop of is_subsequence over the bytes of the sequence.
RECURSIVE seq_skip(_, _, _)
seq_skip(bytes, pos, i) ==
    IF i < Len(bytes) /\ get_alphabet_position(bytes[i + 1]) # pos
      THEN seq_skip(bytes, pos, i + 1)
      ELSE i

\* The for loop of is_subsequence from the k-th char of the pattern on.
RECURSIVE seq_loop(_, _, _, _)
seq_loop(pat, bytes, k, i) ==
    IF k > Len(pat) THEN TRUE
    ELSE LET j == seq_skip(bytes, get_alphabet_position(as_u8(pat[k])), i)
         IN  IF j >= Len(bytes) THEN FALSE
             ELSE seq_loop(pat, bytes, k + 1, j + 1)

is_subsequence(pat, sequence) == seq_loop(pat, as_bytes(sequence), 1, 0)

match_word_deterministic(pat, ws) ==
    \E k \in 1..Len(ws) : is_subsequence(pat, ws[k])

\* A bug of match_words: the deterministic check is left out.
match_words_hash_only(patterns, words_hash, ws) ==
    \A k \in 1..Len(patterns) : match_with_hash(patterns[k], words_hash)

\* A bug of match_words: any() where the code has all().
match_words_any(patterns, words_hash, ws) ==
    \E k \in 1..Len(patterns) :
        match_with_hash(patterns[k], words_hash)
        /\ match_word_deterministic(patterns[k], ws)

match_words(patterns, words_hash, ws) ==
    \A k \in 1..Len(patterns) :
        match_with_hash(patterns[k], words_hash)
        /\ match_word_deterministic(patterns[k], ws)

\* str::split(' '): the pieces between the spaces, empty pieces included.
RECURSIVE split_from(_, _, _)
split_from(s, k, piece) ==
    IF k > Len(s) THEN <<piece>>
    ELSE IF s[k] = Space THEN <<piece>> \o split_from(s, k + 1, <<>>)
    ELSE split_from(s, k + 1, Append(piece, s[k]))

split(s) == split_from(s, 1, <<>>)

-----------------------------------------------------------------------------
(* The store *)

TodoItem_new(index, description, tags, done, words_hash, tags_hash) ==
    [index |-> index, description |-> description, tags |-> tags,
     done |-> done, words_hash |-> words_hash, tags_hash |-> tags_hash]

\* Index::increment
increment(i) == i + 1

\* TodoList::push: the item it appends for a description and its tags.
push_item(top, description, tags) ==
    LET ws == split(description)
    IN  TodoItem_new(top, ws, tags, FALSE, hash_words(ws), hash_words(tags))

\* A bug of push: the counter is returned after the increment.
push_ret_incremented(top) == increment(top)

\* TodoList::push: the value it returns (the counter before the increment).
push_ret(top) == top

\* A bug of done_with_index: the flag is toggled where it is set.
done_items_toggle(its, top, idx) ==
    IF idx < top THEN [its EXCEPT ![idx + 1].done = ~@] ELSE its

\* TodoList::done_with_index: the items after the call.
done_items(its, top, idx) ==
    IF idx < top THEN [its EXCEPT ![idx + 1].done = TRUE] ELSE its

\* A bug of done_with_index: <= where the code has <.
done_ret_inclusive(top, idx) == IF idx <= top THEN <<idx>> ELSE <<>>

\* TodoList::done_with_index: Some(idx) is <<idx>>, None is <<>>.
done_ret(top, idx) == IF idx < top THEN <<idx>> ELSE <<>>

\* A bug of search: the done flag is not looked at.
search_filter_ignores_done(item, s_words, s_tags) ==
    /\ match_words(s_words, item.words_hash, item.description)
    /\ match_words(s_tags, item.tags_hash, item.tags)

\* The closure TodoList::search filters with.
search_filter(item, s_words, s_tags) ==
    /\ ~item.done
    /\ match_words(s_words, item.words_hash, item.description)
    /\ match_words(s_tags, item.tags_hash, item.tags)

\* par_iter().rev() ... collect(): the kept items' indices, merged in the
\* order of the reversed vector, from its n-th element down to the first.
RECURSIVE collect_from(_, _, _)
collect_from(its, ev, n) ==
    IF n = 0 THEN <<>>
    ELSE (IF ev[n] = "keep" THEN <<its[n].index>> ELSE <<>>)
         \o collect_from(its, ev, n - 1)

\* A bug of search: rev() is left out, the items are merged in push order.
search_collect_forward(its, ev) ==
    LET kept == SelectSeq([n \in 1..Len(its) |-> n], LAMBDA n : ev[n] = "keep")
    IN  [k \in 1..Len(kept) |-> its[kept[k]].index]

search_collect(its, ev) == collect_from(its, ev, Len(its))

\* run_query: the Result it makes of what the list returned.
Added(idx) == [ok |-> TRUE, kind |-> "Added", val |-> <<idx>>]
query_done(r) ==
    IF r = <<>> THEN [ok |-> FALSE, kind |-> "Invalid Index", val |-> <<>>]
    ELSE [ok |-> TRUE, kind |-> "Done", val |-> <<>>]
Found(v) == [ok |-> TRUE, kind |-> "Found", val |-> v]
NoResult == [ok |-> TRUE, kind |-> "none", val |-> <<>>]

-----------------------------------------------------------------------------
(* The inputs the model draws *)

\* The tags "ab", "c-"
AbTags == << <<97, 98>>, <<99, 45>> >>

\* The Query::Add queries: "aac bbb" without tags; "abc" without tags and
\* with the tags; "A-b  1" followed by U+0161 (an empty piece and chars
\* outside the alphabet, one of them not ASCII) with the tags.
Additions ==
    { [description |-> <<97, 97, 99, 32, 98, 98, 98>>, tags |-> <<>>],
      [description |-> <<97, 98, 99>>, tags |-> <<>>],
      [description |-> <<97, 98, 99>>, tags |-> AbTags],
      [description |-> <<65, 45, 98, 32, 32, 49, 353>>, tags |-> AbTags] }

\* words [] tags []; words ["abc"] tags []; words ["AB"] tags ["a"]
Queries ==
    { [words |-> <<>>, tags |-> <<>>],
      [words |-> << <<97, 98, 99>> >>, tags |-> <<>>],
      [words |-> << <<65, 66>> >>, tags |-> << <<97>> >>] }

\* u64 values passed to done_with_index: every assigned id, the counter
\* itself and one above it.
Indices == 0..(MaxItems + 1)

\* 'a', 'A', '-', and outside the alphabet '1' and U+0161 (two UTF-8 bytes,
\* low eight bits 0x61)
FnChars == {97, 65, 45, 49, 353}

StrUpTo(S, n) == UNION {[1..k -> S] : k \in 0..n}

NoCall == [fn |-> "none", k |-> 0, hash |-> <<>>, ret |-> FALSE]
NoQuery == [op |-> "none", idx |-> 0, words |-> <<>>, tags |-> <<>>,
            ret |-> <<>>, out |-> NoResult]

-----------------------------------------------------------------------------
(* The store's behaviours: run_query on a TodoList::new() *)

Init ==
    /\ top_index = 0
    /\ items = <<>>
    /\ pc = "idle"
    /\ evald = <<>>
    /\ last = NoQuery
    /\ completed = {}
    /\ pattern = <<>>
    /\ words = <<>>
    /\ call = NoCall

\* Query::Add
RunAdd(description, tags) ==
    /\ pc = "idle"
    /\ Len(items) < MaxItems
    /\ items' = Append(items, push_item(top_index, description, tags))
    /\ top_index' = increment(top_index)
    /\ last' = [op |-> "push", idx |-> 0, words |-> <<>>, tags |-> <<>>,
                ret |-> <<push_ret(top_index)>>,
                out |-> Added(push_ret(top_index))]
    /\ UNCHANGED <<pc, evald, completed, pattern, words, call>>

\* Query::Done
RunDone(idx) ==
    /\ pc = "idle"
    /\ items' = done_items(items, top_index, idx)
    /\ last' = [op |-> "done", idx |-> idx, words |-> <<>>, tags |-> <<>>,
                ret |-> done_ret(top_index, idx),
                out |-> query_done(done_ret(top_index, idx))]
    /\ completed' = completed \cup {done_ret(top_index, idx)[k] :
                                      k \in 1..Len(done_ret(top_index, idx))}
    /\ UNCHANGED <<top_index, pc, evald, pattern, words, call>>

\* Query::Search: search borrows the list and hands the items to the workers.
SearchBegin(q) ==
    /\ pc = "idle"
    /\ pc' = "search"
    /\ evald' = [i \in 1..Len(items) |-> "pending"]
    /\ last' = [op |-> "searching", idx |-> 0, words |-> q.words,
                tags |-> q.tags, ret |-> <<>>, out |-> NoResult]
    /\ UNCHANGED <<top_index, items, completed, pattern, words, call>>

\* A worker evaluates the filter on one item, in any order.
SearchEval(i) ==
    /\ pc = "search"
    /\ evald[i] = "pending"
    /\ evald' = [evald EXCEPT ![i] =
                   IF search_filter(items[i], last.words, last.tags)
                     THEN "keep" ELSE "drop"]
    /\ UNCHANGED <<top_index, items, pc, last, completed, pattern, words, call>>

\* collect(): every item is evaluated; search returns and run_query wraps it.
SearchCollect ==
    /\ pc = "search"
    /\ \A i \in 1..Len(items) : evald[i] # "pending"
    /\ pc' = "idle"
    /\ evald' = <<>>
    /\ last' = [last EXCEPT !.op = "search",
                            !.ret = search_collect(items, evald),
                            !.out = Found(search_collect(items, evald))]
    /\ UNCHANGED <<top_index, items, completed, pattern, words, call>>

Next ==
    \/ \E a \in Additions : RunAdd(a.description, a.tags)
    \/ \E idx \in Indices : RunDone(idx)
    \/ \E q \in Queries : SearchBegin(q)
    \/ \E i \in 1..Len(items) : SearchEval(i)
    \/ SearchCollect

Spec == Init /\ [][Next]_vars

-----------------------------------------------------------------------------
(* The functions on their own: every pattern and word list within the      *)
(* bounds, and the functions applied to them                               *)

FnInit ==
    /\ top_index = 0
    /\ items = <<>>
    /\ pc = "idle"
    /\ evald = <<>>
    /\ last = NoQuery
    /\ completed = {}
    /\ pattern \in StrUpTo(FnChars, MaxPat)
    /\ \E d \in StrUpTo(FnChars \cup {Space}, MaxDesc) : words = split(d)
    /\ call = NoCall

FnFrame == UNCHANGED <<top_index, items, pc, evald, last, completed, pattern, words>>

CallHashWords ==
    /\ call' = [fn |-> "hash_words", k |-> 0, hash |-> hash_words(words),
                ret |-> FALSE]
    /\ FnFrame

CallMatchWithHash ==
    /\ call' = [fn |-> "match_with_hash", k |-> 0, hash |-> hash_words(words),
                ret |-> match_with_hash(pattern, hash_words(words))]
    /\ FnFrame

CallIsSubsequence(k) ==
    /\ call' = [fn |-> "is_subsequence", k |-> k, hash |-> <<>>,
                ret |-> is_subsequence(pattern, words[k])]
    /\ FnFrame

CallMatchWords ==
    /\ call' = [fn |-> "match_words", k |-> 0, hash |-> hash_words(words),
                ret |-> match_words(<<pattern>>, hash_words(words), words)]
    /\ FnFrame

FnNext ==
    \/ CallHashWords
    \/ CallMatchWithHash
    \/ \E k \in 1..Len(words) : CallIsSubsequence(k)
    \/ CallMatchWords

FnSpec == FnInit /\ [][FnNext]_vars
-----------------------------------------------------------------------------
(* Vocabulary of the properties *)

IdsOf(v) == {v[k] : k \in 1..Len(v)}

Some(idx) == <<idx>>
None == <<>>

\* "aac", "bbb" and the pattern "abc"
AacBbb == << <<97, 97, 99>>, <<98, 98, 98>> >>
Abc == <<97, 98, 99>>

IsSearch == last.op = "search"

\* The sequential scan of the items from the last pushed to the first.
RECURSIVE ReverseScan(_, _, _, _)
ReverseScan(its, s_words, s_tags, n) ==
    IF n = 0 THEN <<>>
    ELSE LET rest == ReverseScan(its, s_words, s_tags, n - 1)
         IN  IF search_filter(its[n], s_words, s_tags)
               THEN <<its[n].index>> \o rest ELSE rest

StrictlyDecreasing(v) == \A k \in 1..(Len(v) - 1) : v[k] > v[k + 1]

\* Every pattern is a subsequence of at least one single word.
EachInSomeWord(patterns, ws) ==
    \A k \in 1..Len(patterns) :
        \E j \in 1..Len(ws) : is_subsequence(patterns[k], ws[j])

LongestLen(ws) ==
    IF ws = <<>> THEN 0
    ELSE CHOOSE n \in {Len(ws[k]) : k \in 1..Len(ws)} :
           \A k \in 1..Len(ws) : Len(ws[k]) <= n

\* The mask has the class bit (no bit is asked for when the class bit is 0).
HasBit(mask, bit) == bit = 0 \/ (mask \div bit) % 2 = 1

\* The signature has the length of the longest word and, at every position
\* of every word, the class bit of the char there.
SignatureOf(sig, ws) ==
    /\ Len(sig) = LongestLen(ws)
    /\ \A k \in 1..Len(ws) : \A i \in 1..Len(ws[k]) :
         HasBit(sig[i], get_bit_position(as_u8(ws[k][i])))

\* Signatures that are not derived from any stored word list.
OtherSignatures == { <<>>, <<0>>, <<3>>, <<2 ^ HyphenPosition, 1, 0>> }

SwapCase(s) ==
    [k \in 1..Len(s) |->
        IF s[k] >= LowerA /\ s[k] <= LowerZ THEN s[k] - LowerA + UpperA
        ELSE IF s[k] >= UpperA /\ s[k] <= UpperZ THEN s[k] - UpperA + LowerA
        ELSE s[k]]

InAlphabet(s) ==
    \A k \in 1..Len(s) : get_alphabet_position(as_u8(s[k])) # UndefinedPosition

IsAscii(s) == \A k \in 1..Len(s) : s[k] < 128

-----------------------------------------------------------------------------
(* The claims *)

\* C1: the hash pre-filter never gives a false negative: whenever the
\* pattern is a subsequence (is_subsequence) of some word of the list,
\* match_with_hash of the pattern and the list's signature is true, for all
\* patterns and words, chars outside [a-zA-Z-] included.
C1_NoFalseNegative ==
    call.fn = "match_with_hash" =>
        ((\E k \in 1..Len(words) : is_subsequence(pattern, words[k]))
            => call.ret = TRUE)

\* C1, for the patterns whose chars (as the code reads them) are all in the
\* alphabet: there the pre-filter gives no false negative.
C1_AlphabetPatterns ==
    (call.fn = "match_with_hash" /\ InAlphabet(pattern)) =>
        ((\E k \in 1..Len(words) : is_subsequence(pattern, words[k]))
            => call.ret = TRUE)

\* C2: once done_with_index(id) has returned Some(id), the item is done in
\* every later state and no later search returns id.
C2_DoneExcluded ==
    /\ \A id \in completed : id < Len(items) /\ items[id + 1].done
    /\ IsSearch => IdsOf(last.ret) \cap completed = {}

C2_Witness ==
    /\ IsSearch
    /\ last.ret # <<>>
    /\ \E id \in completed :
         search_filter([items[id + 1] EXCEPT !.done = FALSE],
                       last.words, last.tags)

\* C3: search returns the matching ids strictly decreasing (most recently
\* pushed first), the sequence a sequential reverse scan of the items gives,
\* in whatever order the workers evaluated the items.
C3_ReverseOrder ==
    IsSearch =>
        /\ StrictlyDecreasing(last.ret)
        /\ last.ret = ReverseScan(items, last.words, last.tags, Len(items))

C3_Witness == IsSearch /\ last.ret = <<2, 1, 0>>

\* C4: done_with_index(id) returns None, and run_query the error "Invalid
\* Index", exactly when id >= top_index, that is when no push returned id,
\* and then the items and the counter are unchanged; for every id below the
\* counter it returns Some(id).
C4_Step ==
    last'.op = "done" =>
        /\ (last'.idx >= top_index) = (\A i \in 1..Len(items) : items[i].index # last'.idx)
        /\ IF last'.idx >= top_index
             THEN /\ last'.ret = None
                  /\ last'.out = [ok |-> FALSE, kind |-> "Invalid Index", val |-> <<>>]
                  /\ items' = items
                  /\ top_index' = top_index
             ELSE /\ last'.ret = Some(last'.idx)
                  /\ last'.out.ok

\* C4: every step that is a done_with_index call fails exactly for an id
\* that was never assigned, and then changes nothing.
C4_InvalidIndex == [][C4_Step]_vars

C4_Witness ==
    /\ last.op = "done"
    /\ last.idx = top_index
    /\ last.ret = None
    /\ \E i \in 1..Len(items) : ~items[i].done

\* C5: every id search returns is of an item that is not done, each query
\* word a subsequence of one single description word and each query label a
\* subsequence of one single label; {"aac", "bbb"} passes the pre-filter for
\* "abc" and match_words still rejects it.
C5_NoFalsePositive ==
    /\ IsSearch =>
         \A id \in IdsOf(last.ret) :
             /\ id < Len(items)
             /\ ~items[id + 1].done
             /\ EachInSomeWord(last.words, items[id + 1].description)
             /\ EachInSomeWord(last.tags, items[id + 1].tags)
    /\ \A i \in 1..Len(items) :
         items[i].description = AacBbb =>
             /\ match_with_hash(Abc, items[i].words_hash)
             /\ ~match_words(<<Abc>>, items[i].words_hash, items[i].description)

C5_Witness ==
    /\ IsSearch
    /\ last.words = <<Abc>>
    /\ last.ret # <<>>
    /\ \E i \in 1..Len(items) :
         /\ items[i].description = AacBbb
         /\ ~items[i].done
         /\ match_with_hash(Abc, items[i].words_hash)
         /\ items[i].index \notin IdsOf(last.ret)

\* C6: the counter equals the number of items and the item at position i
\* has id i; a push returns the number of pushes before it; no step removes
\* an item or changes an id, and done_with_index leaves the counter alone.
C6_State ==
    /\ top_index = Len(items)
    /\ \A i \in 1..Len(items) : items[i].index = i - 1

C6_Step ==
    /\ Len(items') >= Len(items)
    /\ \A i \in 1..Len(items) : items'[i].index = items[i].index
    /\ (last'.op = "push" /\ items' # items) =>
          /\ Len(items') = Len(items) + 1
          /\ last'.ret = <<Len(items)>>
          /\ last'.out = [ok |-> TRUE, kind |-> "Added", val |-> <<Len(items)>>]
    /\ last'.op = "done" => top_index' = top_index

\* C6: the ids are the positions in every state, and every step keeps them.
C6_Identifiers == []C6_State /\ [][C6_Step]_vars

C6_Witness ==
    /\ last.op = "push"
    /\ last.ret = <<2>>
    /\ \E i \in 1..Len(items) : items[i].done

\* C7: is_subsequence("", s) is true for every s, is_subsequence(p, p) is
\* true for every p, and the result does not depend on the letter case of
\* either argument.
C7_SubsequenceLaws ==
    call.fn = "is_subsequence" =>
        LET s == words[call.k]
        IN  /\ pattern = <<>> => call.ret = TRUE
            /\ pattern = s => call.ret = TRUE
            /\ call.ret = is_subsequence(SwapCase(pattern), s)
            /\ call.ret = is_subsequence(pattern, SwapCase(s))

\* C7, for ASCII strings: there the three laws hold.
C7_AsciiLaws ==
    (call.fn = "is_subsequence" /\ IsAscii(pattern) /\ IsAscii(words[call.k])) =>
        LET s == words[call.k]
        IN  /\ pattern = <<>> => call.ret = TRUE
            /\ pattern = s => call.ret = TRUE
            /\ call.ret = is_subsequence(SwapCase(pattern), s)
            /\ call.ret = is_subsequence(pattern, SwapCase(s))

\* C8: match_words of an empty pattern list is true for every signature and
\* word list, so a search with no words and no labels returns exactly the
\* ids of the items that are not done, the ones without labels included.
C8_EmptyQuery ==
    /\ \A sig \in OtherSignatures :
         /\ match_words(<<>>, sig, <<>>)
         /\ \A i \in 1..Len(items) :
              /\ match_words(<<>>, sig, items[i].description)
              /\ match_words(<<>>, sig, items[i].tags)
    /\ (IsSearch /\ last.words = <<>> /\ last.tags = <<>>) =>
         /\ IdsOf(last.ret) = {items[i].index : i \in {j \in 1..Len(items) : ~items[j].done}}
         /\ Len(last.ret) = Cardinality({j \in 1..Len(items) : ~items[j].done})

C8_Witness ==
    /\ IsSearch /\ last.words = <<>> /\ last.tags = <<>>
    /\ \E i \in 1..Len(items) : items[i].done
    /\ \E i \in 1..Len(items) :
         ~items[i].done /\ items[i].tags = <<>> /\ items[i].index \in IdsOf(last.ret)

\* C9: a done_with_index(id) that returns Some(id) sets the done flag of the
\* item with that id and changes nothing else: not another item, not that
\* item's id, words, labels or signatures, not the counter; on an item that
\* is done already it returns Some(id) and changes nothing.
C9_Step ==
    (last'.op = "done" /\ last'.ret # None) =>
        LET n == last'.idx + 1
        IN  /\ last'.ret = Some(last'.idx)
            /\ top_index' = top_index
            /\ Len(items') = Len(items)
            /\ \A j \in 1..Len(items) : j # n => items'[j] = items[j]
            /\ items'[n].done = TRUE
            /\ items'[n].index = items[n].index
            /\ items'[n].description = items[n].description
            /\ items'[n].tags = items[n].tags
            /\ items'[n].words_hash = items[n].words_hash
            /\ items'[n].tags_hash = items[n].tags_hash
            /\ items[n].done => items' = items

\* C9: every successful done_with_index step changes one done flag at most.
C9_DoneFrame == [][C9_Step]_vars

C9_Witness ==
    /\ last.op = "done"
    /\ last.ret = Some(1)
    /\ items[2].done
    /\ \E i \in 1..Len(items) : ~items[i].done
    /\ \E i \in 1..Len(items) : i # 2 /\ items[i].done

\* C10: the word signature and the label signature of every stored item are
\* the ones hash_words computes from its words and labels: as long as the
\* longest word (empty for no word), with the class bit of w[i] set at
\* position i for every word w and every i < len(w).
C10_Signatures ==
    \A i \in 1..Len(items) :
        /\ items[i].words_hash = hash_words(items[i].description)
        /\ items[i].tags_hash = hash_words(items[i].tags)
        /\ SignatureOf(items[i].words_hash, items[i].description)
        /\ SignatureOf(items[i].tags_hash, items[i].tags)

C10_Witness ==
    \E i \in 1..Len(items) :
        /\ items[i].done
        /\ items[i].description = AacBbb
        /\ items[i].words_hash = <<3, 3, 6>>
        /\ items[i].tags_hash = <<>>
        /\ \E j \in 1..Len(items) :
             items[j].tags = AbTags /\ items[j].tags_hash = <<5, 2 + 2 ^ HyphenPosition>>

====
